---------------------------- MODULE Spec2Model ----------------------------
(***************************************************************************)
(* A model of the document editor of docforge-react:                       *)
(*   - the placeholder registry of DocumentEditor.tsx (the visible list,   *)
(*     the two localStorage records, add / delete / re-initialization);    *)
(*   - the PDF import with its image blob cache and the Word import of     *)
(*     DocumentEditor.tsx, as asynchronous handlers that interleave at     *)
(*     their await points;                                                 *)
(*   - the raster (PDF) and structured (Word) exports of ExportButtons.tsx *)
(*     and the page splitter of DocumentEditor.tsx.                        *)
(* Strings whose characters matter (labels, placeholder tokens) are        *)
(* sequences of one-character strings, so that trim, startsWith, endsWith  *)
(* and the {{ }} wrapping are computed as the code computes them.          *)
(***************************************************************************)
EXTENDS Naturals, Sequences, FiniteSets

VARIABLES
  customPlaceholder,  \* the text of the "Add custom placeholder..." input
  allPlaceholders,    \* the visible placeholder list (React state)
  localStorage,       \* the two persisted records, by key
  alertMsg,           \* the alert() shown by the last handler run ("" if none)
  lastOp,             \* history: the last registry handler run and its argument
  addOrder,           \* history: visible tokens that were added, latest first
  deletedDefaults,    \* history: built-in tokens deletePlaceholder has run on
  content,            \* the Document: the markup the editor holds, as its parts
  lastWriter,         \* history: the handler whose setContent came last
  imageBlobCache,     \* imageBlobCache.current: data href -> blob URL
  nextBlobUrl,        \* the number of the next URL.createObjectURL result
  pdf,                \* per handlePdfUpload run: its position and locals
  tasks,              \* per handlePdfUpload run: the image callbacks of a page
  resolved,           \* history: every finished resolution through the cache
  word,               \* the handleWordUpload run: its position and report
  rasterExport,       \* the exportToPDF run: its position and locals
  scratchContainers,  \* the offscreen containers attached to document.body
  toasts,             \* the notifications issued by the export handlers
  downloads,          \* the files the export handlers have saved
  wordExport,         \* the exportToWord run: its position and locals
  pagesSplit          \* the last splitHtmlByPageBreaks call and its result

regVars == <<customPlaceholder, allPlaceholders, localStorage, alertMsg,
             lastOp, addOrder, deletedDefaults>>

impVars == <<content, lastWriter, imageBlobCache, nextBlobUrl, pdf, tasks,
             resolved, word>>

expVars == <<rasterExport, scratchContainers, toasts, downloads, wordExport,
             pagesSplit>>

vars == <<regVars, impVars, expVars>>

---------------------------------------------------------------------------
(* Bounds of the model.                                                    *)

\* The success branch of add is taken only while the list is shorter.
MaxVisible == 16

\* The user deletes custom entries and the first MaxDeletable built-ins.
MaxDeletable == 2

\* An imported PDF has at most MaxPages pages.
MaxPages == 2

\* The SVG of a page holds at most MaxImagesPerPage image nodes.
MaxImagesPerPage == 2

\* The markup handed to the raster export and to the page splitter is at
\* most MaxMarkupLen tokens long.
MaxMarkupLen == 3

\* A document handed to the structured export has at most MaxBlocks
\* top-level blocks, or a text inside at most MaxNesting style elements.
MaxBlocks == 3

MaxNesting == 2

---------------------------------------------------------------------------
(* Sequence helpers (Array.prototype.includes / filter, String.trim).      *)

Range(s) == {s[i] : i \in 1..Len(s)}

Includes(s, x) == \E i \in 1..Len(s) : s[i] = x

Count(s, x) == Cardinality({i \in 1..Len(s) : s[i] = x})

NoDuplicates(s) == \A i, j \in 1..Len(s) : s[i] = s[j] => i = j

IsWhitespace(c) == c = " "

RECURSIVE TrimStart(_)
TrimStart(s) ==
  IF s # <<>> /\ IsWhitespace(Head(s)) THEN TrimStart(Tail(s)) ELSE s

RECURSIVE TrimEnd(_)
TrimEnd(s) ==
  IF s # <<>> /\ IsWhitespace(s[Len(s)])
    THEN TrimEnd(SubSeq(s, 1, Len(s) - 1))
    ELSE s

Trim(s) == TrimEnd(TrimStart(s))

StartsWith(s, p) == Len(s) >= Len(p) /\ SubSeq(s, 1, Len(p)) = p

EndsWith(s, p) ==
  Len(s) >= Len(p) /\ SubSeq(s, Len(s) - Len(p) + 1, Len(s)) = p

OpenBraces == <<"{", "{">>

CloseBraces == <<"}", "}">>

---------------------------------------------------------------------------
(* The placeholder registry.                                               *)

defaultPlaceholders ==
    << <<"{", "{", "n", "a", "m", "e", "}", "}">>,
       <<"{", "{", "p", "h", "o", "n", "e", " ", "n", "u", "m", "b", "e", "r", "}", "}">>,
       <<"{", "{", "A", "d", "d", "r", "e", "s", "s", "}", "}">>,
       <<"{", "{", "e", "m", "a", "i", "l", "}", "}">>,
       <<"{", "{", "c", "o", "m", "p", "a", "n", "y", "}", "}">>,
       <<"{", "{", "d", "a", "t", "e", "}", "}">>,
       <<"{", "{", "p", "o", "s", "i", "t", "i", "o", "n", "}", "}">>,
       <<"{", "{", "s", "a", "l", "a", "r", "y", "}", "}">>,
       <<"{", "{", "f", "i", "r", "s", "t", " ", "n", "a", "m", "e", "}", "}">>,
       <<"{", "{", "l", "a", "s", "t", " ", "n", "a", "m", "e", "}", "}">>,
       <<"{", "{", "c", "i", "t", "y", "}", "}">>,
       <<"{", "{", "s", "t", "a", "t", "e", "}", "}">>,
       <<"{", "{", "z", "i", "p", " ", "c", "o", "d", "e", "}", "}">>,
       <<"{", "{", "c", "o", "u", "n", "t", "r", "y", "}", "}">> >>

IsDefault(p) == Includes(defaultPlaceholders, p)

\* The labels the modelled user types: empty, blank, plain, padded, already
\* wrapped, wrapped with a trailing blank, and the label of a built-in.
Labels ==
  { <<>>,
    <<" ">>,
    <<"a">>,
    <<" ", "a">>,
    <<"b">>,
    <<"{", "{", "a", "}", "}">>,
    <<"{", "{", "a", "}", "}", " ">>,
    <<"n", "a", "m", "e">> }

\* localStorage items: getItem returns null for a key never set.  The stored
\* text is JSON.stringify of an array of strings and is read back with
\* JSON.parse, which returns the array that was written.
NullItem == [set |-> FALSE, val |-> <<>>]

StoredItem(v) == [set |-> TRUE, val |-> v]

StorageKeys == {"customPlaceholders", "removedDefaultPlaceholders"}

\* saved ? JSON.parse(saved) : []   and   JSON.parse(getItem(k) || "[]")
ParseOrEmpty(item) == IF item.set THEN item.val ELSE <<>>

\* defaultPlaceholders.filter((p) => !removedDefaults.includes(p))
AvailableDefaults(removedDefaults) ==
  SelectSeq(defaultPlaceholders, LAMBDA p : ~Includes(removedDefaults, p))

\* The useState initializer of allPlaceholders.
InitialPlaceholders(storage) ==
  LET customPlaceholders == ParseOrEmpty(storage["customPlaceholders"])
      removedDefaults == ParseOrEmpty(storage["removedDefaultPlaceholders"])
  IN  customPlaceholders \o AvailableDefaults(removedDefaults)

\* The token addCustomPlaceholder builds from the typed text.
FormatPlaceholder(text) ==
  IF StartsWith(text, OpenBraces) /\ EndsWith(text, CloseBraces)
    THEN text
    ELSE OpenBraces \o Trim(text) \o CloseBraces

\* list.filter((p) => !defaultPlaceholders.includes(p))
CustomOnly(list) == SelectSeq(list, LAMBDA p : ~IsDefault(p))

\* allPlaceholders.includes(formattedPlaceholder)
AlreadyExistsNever(list, formatted) == FALSE

AlreadyExistsAmongCustom(list, formatted) ==
  Includes(CustomOnly(list), formatted)

AlreadyExists(list, formatted) == Includes(list, formatted)

\* [formattedPlaceholder, ...allPlaceholders]
AppendPlaceholder(formatted, list) == list \o <<formatted>>

PrependPlaceholder(formatted, list) == <<formatted>> \o list

\* allPlaceholders.filter((p) => p !== placeholderToDelete)
WithoutPlaceholder(list, placeholderToDelete) ==
  SelectSeq(list, LAMBDA p : p # placeholderToDelete)

\* removedDefaults.push(placeholderToDelete)
NoPushRemovedDefault(removedDefaults, placeholderToDelete) == removedDefaults

PushRemovedDefault(removedDefaults, placeholderToDelete) ==
  Append(removedDefaults, placeholderToDelete)

DuplicateAlert == "This placeholder already exists!"

RegInit ==
  /\ localStorage = [k \in StorageKeys |-> NullItem]
  /\ customPlaceholder = <<>>
  /\ allPlaceholders = InitialPlaceholders([k \in StorageKeys |-> NullItem])
  /\ alertMsg = ""
  /\ lastOp = [op |-> "mount", arg |-> <<>>]
  /\ addOrder = <<>>
  /\ deletedDefaults = {}

\* onChange of the input: setCustomPlaceholder(e.target.value)
TypeLabel(text) ==
  /\ customPlaceholder' = text
  /\ alertMsg' = ""
  /\ lastOp' = [op |-> "type", arg |-> text]
  /\ UNCHANGED <<allPlaceholders, localStorage, addOrder, deletedDefaults>>
  /\ UNCHANGED <<impVars, expVars>>

\* addCustomPlaceholder, from the button or the Enter key
AddCustomPlaceholder ==
  LET formattedPlaceholder == FormatPlaceholder(customPlaceholder)
      newPlaceholders == PrependPlaceholder(formattedPlaceholder, allPlaceholders)
  IN
  /\ lastOp' = [op |-> "add", arg |-> customPlaceholder]
  /\ UNCHANGED <<impVars, expVars>>
  /\ IF Trim(customPlaceholder) = <<>>
       THEN /\ alertMsg' = ""
            /\ UNCHANGED <<customPlaceholder, allPlaceholders, localStorage,
                           addOrder, deletedDefaults>>
       ELSE IF AlreadyExists(allPlaceholders, formattedPlaceholder)
         THEN /\ alertMsg' = DuplicateAlert
              /\ UNCHANGED <<customPlaceholder, allPlaceholders, localStorage,
                             addOrder, deletedDefaults>>
         ELSE /\ Len(allPlaceholders) < MaxVisible
              /\ allPlaceholders' = newPlaceholders
              /\ localStorage' =
                   [localStorage EXCEPT !["customPlaceholders"] =
                      StoredItem(CustomOnly(newPlaceholders))]
              /\ customPlaceholder' = <<>>
              /\ alertMsg' = ""
              /\ addOrder' = <<formattedPlaceholder>> \o addOrder
              /\ UNCHANGED deletedDefaults

\* The entries whose delete button the modelled user presses.
Deletable(p) ==
  \/ ~IsDefault(p)
  \/ \E i \in 1..MaxDeletable :
       i <= Len(defaultPlaceholders) /\ defaultPlaceholders[i] = p

\* deletePlaceholder(placeholder), from the delete button of a visible entry
DeletePlaceholder(placeholderToDelete) ==
  LET newPlaceholders == WithoutPlaceholder(allPlaceholders, placeholderToDelete)
      customSaved ==
        [localStorage EXCEPT !["customPlaceholders"] =
           StoredItem(CustomOnly(newPlaceholders))]
      removedDefaults ==
        ParseOrEmpty(customSaved["removedDefaultPlaceholders"])
  IN
  /\ Includes(allPlaceholders, placeholderToDelete)
  /\ Deletable(placeholderToDelete)
  /\ allPlaceholders' = newPlaceholders
  /\ localStorage' =
       IF IsDefault(placeholderToDelete)
            /\ ~Includes(removedDefaults, placeholderToDelete)
         THEN [customSaved EXCEPT !["removedDefaultPlaceholders"] =
                 StoredItem(PushRemovedDefault(removedDefaults,
                                               placeholderToDelete))]
         ELSE customSaved
  /\ alertMsg' = ""
  /\ lastOp' = [op |-> "delete", arg |-> placeholderToDelete]
  /\ addOrder' = WithoutPlaceholder(addOrder, placeholderToDelete)
  /\ deletedDefaults' =
       IF IsDefault(placeholderToDelete)
         THEN deletedDefaults \cup {placeholderToDelete}
         ELSE deletedDefaults
  /\ UNCHANGED customPlaceholder
  /\ UNCHANGED <<impVars, expVars>>

\* A reload of the page: the component mounts again and its state is
\* initialized from localStorage.
Reload ==
  /\ allPlaceholders' = InitialPlaceholders(localStorage)
  /\ customPlaceholder' = <<>>
  /\ alertMsg' = ""
  /\ lastOp' = [op |-> "reload", arg |-> <<>>]
  /\ addOrder' =
       SelectSeq(addOrder,
                 LAMBDA p : Includes(InitialPlaceholders(localStorage), p))
  /\ UNCHANGED <<localStorage, deletedDefaults>>
  /\ UNCHANGED <<impVars, expVars>>

---------------------------------------------------------------------------
(* The Document and the two imports (handlePdfUpload, handleWordUpload).   *)
(* Markup is the sequence of its top-level parts; join("") of htmlParts is *)
(* the sequence of the parts pushed.  The SVG inside a page container is   *)
(* not modelled, only the hrefs of its image nodes while they are resolved.*)

ImportIds == {1}

Payloads == {1, 2}

MarkupPart(tag, page) == [tag |-> tag, page |-> page]

\* <div data-pdf-page="${i}" style="...">${svgString}</div>
PageContainer(i) == MarkupPart("div", i)

\* <hr class="page-break" data-page-break="true" />
PageBreakMarker == MarkupPart("hr", 0)

\* The content the editor is created with: <h1>...</h1><p>...</p>
InitialContent == <<MarkupPart("h1", 0), MarkupPart("p", 0)>>

\* The markup the external Word converter may return (result.value).
WordMarkups ==
  { <<MarkupPart("p", 0)>>,
    <<MarkupPart("h1", 0), MarkupPart("p", 0), MarkupPart("p", 0)>> }

\* The href of an image node: an inline data payload, another URL, or none.
DataHref(payload) == [scheme |-> "data:", id |-> payload]

OtherHref == [scheme |-> "https:", id |-> 0]

NoHref == [scheme |-> "", id |-> 0]

Hrefs == {DataHref(p) : p \in Payloads} \cup {OtherHref, NoHref}

\* href && href.startsWith("data:")
IsDataHref(href) == href # NoHref /\ href.scheme = "data:"

ImageNodeLists == UNION {[1..k -> Hrefs] : k \in 0..MaxImagesPerPage}

\* Map.prototype.set
CacheSet(cache, key, value) ==
  [k \in DOMAIN cache \cup {key} |-> IF k = key THEN value ELSE cache[k]]

EmptyCache == [k \in {} |-> 0]

UrlsResolvedFor(log, href) == {r.url : r \in {x \in log : x.href = href}}

Resolution(href, url, before) == [href |-> href, url |-> url, before |-> before]

\* One callback of imageNodes.map, run up to its first await: the node is
\* left alone, rewritten from the cache, or its payload is being fetched.
ImageTask(href, pc, url, before) ==
  [href |-> href, pc |-> pc, url |-> url, before |-> before]

StartImageTask(href, cache, log) ==
  IF ~IsDataHref(href)
    THEN ImageTask(href, "skipped", 0, {})
    ELSE IF href \in DOMAIN cache
      THEN ImageTask(href, "hit", cache[href], UrlsResolvedFor(log, href))
      ELSE ImageTask(href, "fetch", 0, UrlsResolvedFor(log, href))

TaskSettled(t) == t.pc \in {"skipped", "hit", "done", "failed"}

TaskFulfilled(t) == t.pc \in {"skipped", "hit", "done"}

\* The parts pushed for page i of n: the container, and a marker after it
\* unless it is the last page.
PagePartsMarkerAlways(i, n) == <<PageContainer(i), PageBreakMarker>>

PageParts(i, n) ==
  <<PageContainer(i)>> \o (IF i < n THEN <<PageBreakMarker>> ELSE <<>>)

\* The loop condition after i++ : i <= pdf.numPages
LoopStopsAfterFirstPage(next, n) == FALSE

LoopContinues(next, n) == next <= n

\* The Document after the catch block of handleWordUpload.
ContentAfterCatchCleared(current) == <<>>

ContentAfterCatch(current) == current

\* const htmlParts: string[] = [] is a local of each run of the handler:
\* the parts run m has pushed.
PartsOfAllRuns(runs, m) ==
  LET RECURSIVE Joined(_)
      Joined(ids) ==
        IF ids = {} THEN <<>>
        ELSE LET first == CHOOSE a \in ids : \A b \in ids : a <= b
             IN runs[first].htmlParts \o Joined(ids \ {first})
  IN Joined(DOMAIN runs)

PartsOfRun(runs, m) == runs[m].htmlParts

IdlePdf ==
  [pc |-> "idle", numPages |-> 0, i |-> 0, htmlParts |-> <<>>, commits |-> 0]

\* The awaits of handlePdfUpload outside the image callbacks, in order.
AfterAwait(pc) ==
  CASE pc = "importLib" -> "readFile"
    [] pc = "readFile" -> "loadDoc"
    [] pc = "getPage" -> "getOperatorList"
    [] pc = "getOperatorList" -> "getSVG"

ImpInit ==
  /\ content = InitialContent
  /\ lastWriter = [by |-> "editor", pages |-> 0]
  /\ imageBlobCache = EmptyCache
  /\ nextBlobUrl = 1
  /\ pdf = [m \in ImportIds |-> IdlePdf]
  /\ tasks = [m \in ImportIds |-> <<>>]
  /\ resolved = {}
  /\ word = [pc |-> "idle", errorLogged |-> FALSE]

\* handlePdfUpload is called with a file; it runs up to await import(...).
\* Each run of the handler is one element of ImportIds.
StartPdfUpload(m) ==
  /\ pdf[m].pc = "idle"
  /\ pdf' = [pdf EXCEPT ![m].pc = "importLib"]
  /\ UNCHANGED <<content, lastWriter, imageBlobCache, nextBlobUrl, tasks,
                 resolved, word>>
  /\ UNCHANGED <<regVars, expVars>>

\* import(), file.arrayBuffer(), pdf.getPage(i), getOperatorList() resolve.
AwaitResolves(m) ==
  /\ pdf[m].pc \in {"importLib", "readFile", "getPage", "getOperatorList"}
  /\ pdf' = [pdf EXCEPT ![m].pc = AfterAwait(pdf[m].pc)]
  /\ UNCHANGED <<content, lastWriter, imageBlobCache, nextBlobUrl, tasks,
                 resolved, word>>
  /\ UNCHANGED <<regVars, expVars>>

\* loadingTask.promise resolves with a document of n pages; the loop starts
\* with page 1, or is skipped and nothing is committed.
DocLoaded(m, n) ==
  /\ pdf[m].pc = "loadDoc"
  /\ pdf' = [pdf EXCEPT ![m].numPages = n,
                        ![m].i = 1,
                        ![m].pc = IF 1 <= n THEN "getPage" ELSE "done"]
  /\ UNCHANGED <<content, lastWriter, imageBlobCache, nextBlobUrl, tasks,
                 resolved, word>>
  /\ UNCHANGED <<regVars, expVars>>

\* getSVG resolves; the SVG is serialized and parsed, and every callback of
\* imageNodes.map runs up to its first await, before await Promise.all.
SvgRendered(m, hrefs) ==
  LET started == [k \in 1..Len(hrefs) |->
                    StartImageTask(hrefs[k], imageBlobCache, resolved)]
  IN
  /\ pdf[m].pc = "getSVG"
  /\ pdf' = [pdf EXCEPT ![m].pc = "images"]
  /\ tasks' = [tasks EXCEPT ![m] = started]
  /\ resolved' = resolved \cup
       {Resolution(started[k].href, started[k].url, started[k].before) :
          k \in {j \in 1..Len(hrefs) : started[j].pc = "hit"}}
  /\ UNCHANGED <<content, lastWriter, imageBlobCache, nextBlobUrl, word>>
  /\ UNCHANGED <<regVars, expVars>>

\* await fetch(href) and await resp.blob() resolve in callback k; then
\* createObjectURL, cache.set and the two setAttribute calls run without
\* another await.  Nothing shared is read or written between the two awaits,
\* so they are one step.
BlobResolved(m, k) ==
  LET t == tasks[m][k]
      blobUrl == nextBlobUrl
  IN
  /\ k \in 1..Len(tasks[m])
  /\ t.pc = "fetch"
  /\ nextBlobUrl' = nextBlobUrl + 1
  /\ imageBlobCache' = CacheSet(imageBlobCache, t.href, blobUrl)
  /\ tasks' = [tasks EXCEPT ![m][k].pc = "done", ![m][k].url = blobUrl]
  /\ resolved' = resolved \cup {Resolution(t.href, blobUrl, t.before)}
  /\ UNCHANGED <<content, lastWriter, pdf, word>>
  /\ UNCHANGED <<regVars, expVars>>

\* fetch or resp.blob() rejects in callback k: Promise.all rejects, the
\* await throws and, there being no catch block, the handler ends with
\* nothing committed; the other callbacks run on.
TaskRejects(m, k) ==
  /\ k \in 1..Len(tasks[m])
  /\ tasks[m][k].pc = "fetch"
  /\ tasks' = [tasks EXCEPT ![m][k].pc = "failed"]
  /\ IF pdf[m].pc = "images"
       THEN pdf' = [pdf EXCEPT ![m].pc = "failed"]
       ELSE UNCHANGED pdf
  /\ UNCHANGED content
  /\ UNCHANGED <<lastWriter, imageBlobCache, nextBlobUrl, resolved, word>>
  /\ UNCHANGED <<regVars, expVars>>

\* One of the awaits outside the image callbacks rejects: the handler ends
\* with nothing committed.
AwaitRejects(m) ==
  /\ pdf[m].pc \in {"importLib", "readFile", "loadDoc", "getPage",
                    "getOperatorList", "getSVG"}
  /\ pdf' = [pdf EXCEPT ![m].pc = "failed"]
  /\ UNCHANGED content
  /\ UNCHANGED <<lastWriter, imageBlobCache, nextBlobUrl, tasks, resolved, word>>
  /\ UNCHANGED <<regVars, expVars>>

\* Promise.all resolves: the page's parts are pushed; the loop goes on to
\* the next page, or ends and htmlParts.join("") is committed by setContent.
PageAssembled(m) ==
  LET p == pdf[m]
      htmlParts == PartsOfRun(pdf, m) \o PageParts(p.i, p.numPages)
  IN
  /\ p.pc = "images"
  /\ \A k \in 1..Len(tasks[m]) : TaskFulfilled(tasks[m][k])
  /\ tasks' = [tasks EXCEPT ![m] = <<>>]
  /\ IF LoopContinues(p.i + 1, p.numPages)
       THEN /\ pdf' = [pdf EXCEPT ![m].htmlParts = htmlParts,
                                  ![m].i = p.i + 1,
                                  ![m].pc = "getPage"]
            /\ UNCHANGED <<content, lastWriter>>
       ELSE /\ pdf' = [pdf EXCEPT ![m].htmlParts = htmlParts,
                                  ![m].i = p.i + 1,
                                  ![m].pc = "done",
                                  ![m].commits =
                                     IF htmlParts # <<>> THEN p.commits + 1
                                                         ELSE p.commits]
            /\ content' = IF htmlParts # <<>> THEN htmlParts ELSE content
            /\ lastWriter' =
                 IF htmlParts # <<>>
                   THEN [by |-> "pdf", pages |-> p.numPages]
                   ELSE lastWriter
  /\ UNCHANGED <<imageBlobCache, nextBlobUrl, resolved, word>>
  /\ UNCHANGED <<regVars, expVars>>

\* handleWordUpload is called with a file: reader.readAsArrayBuffer(file).
StartWordUpload ==
  /\ word.pc \in {"idle", "done", "failed", "unread"}
  /\ word' = [pc |-> "reading", errorLogged |-> FALSE]
  /\ UNCHANGED <<content, lastWriter, imageBlobCache, nextBlobUrl, pdf, tasks,
                 resolved>>
  /\ UNCHANGED <<regVars, expVars>>

\* reader.onload: docx2html(arrayBuffer) is called and awaited.
WordFileRead ==
  /\ word.pc = "reading"
  /\ word' = [word EXCEPT !.pc = "converting"]
  /\ UNCHANGED <<content, lastWriter, imageBlobCache, nextBlobUrl, pdf, tasks,
                 resolved>>
  /\ UNCHANGED <<regVars, expVars>>

\* The read fails: no onerror handler is set and onload never runs.
WordReadFails ==
  /\ word.pc = "reading"
  /\ word' = [word EXCEPT !.pc = "unread"]
  /\ UNCHANGED <<content, lastWriter, imageBlobCache, nextBlobUrl, pdf, tasks,
                 resolved>>
  /\ UNCHANGED <<regVars, expVars>>

\* docx2html resolves: setContent(result.value).
WordConverted(value) ==
  /\ word.pc = "converting"
  /\ word' = [word EXCEPT !.pc = "done"]
  /\ content' = value
  /\ lastWriter' = [by |-> "word", pages |-> 0]
  /\ UNCHANGED <<imageBlobCache, nextBlobUrl, pdf, tasks, resolved>>
  /\ UNCHANGED <<regVars, expVars>>

\* docx2html throws: the catch block calls console.error.
WordConvertThrows ==
  /\ word.pc = "converting"
  /\ word' = [pc |-> "failed", errorLogged |-> TRUE]
  /\ content' = ContentAfterCatch(content)
  /\ UNCHANGED <<lastWriter, imageBlobCache, nextBlobUrl, pdf, tasks, resolved>>
  /\ UNCHANGED <<regVars, expVars>>

---------------------------------------------------------------------------
(* Markup as the export and the page splitter read it: a sequence of       *)
(* tokens, each one character of text or one whole tag.                    *)

\* The marker as the pageBreak node renders it (renderHTML, getHTML).
HrRendered == "<hr class=\"page-break\" data-page-break=\"true\">"

\* The marker as handlePdfUpload pushes it.
HrImported == "<hr class=\"page-break\" data-page-break=\"true\" />"

\* The marker as the editor element holds it: the view marks a leaf node
\* contenteditable="false".
HrInEditor ==
  "<hr class=\"page-break\" data-page-break=\"true\" contenteditable=\"false\">"

\* A marker spelled in upper case with single quotes.
HrSingleQuoted == "<HR data-page-break='true'>"

\* A horizontal rule that is no page break.
HorizontalRule == "<hr>"

MarkupTokens ==
  {"x", " ", HrRendered, HrImported, HrInEditor, HrSingleQuoted,
   HorizontalRule}

Markups == UNION {[1..k -> MarkupTokens] : k \in 0..MaxMarkupLen}

\* The tags /<hr[^>]*data-page-break=['"]true['"][^>]*>/i matches.
PageBreakPatternLiteralOnly == {HrRendered}

PageBreakPattern == {HrRendered, HrImported, HrInEditor, HrSingleQuoted}

\* String.prototype.split: the pieces of s between the separators, the
\* empty ones included.
RECURSIVE Split(_, _)
Split(s, separators) ==
  IF \A i \in 1..Len(s) : s[i] \notin separators
    THEN <<s>>
    ELSE LET i == CHOOSE j \in 1..Len(s) :
                    /\ s[j] \in separators
                    /\ \A k \in 1..(j - 1) : s[k] \notin separators
         IN <<SubSeq(s, 1, i - 1)>> \o Split(SubSeq(s, i + 1, Len(s)), separators)

\* The innerHTML of the editor element for a Document: a marker part is the
\* marker tag, any other part is markup without one.
InnerHTML(document) ==
  [j \in 1..Len(document) |->
     IF document[j] = PageBreakMarker THEN HrInEditor ELSE "x"]

---------------------------------------------------------------------------
(* The raster export (exportToPDF).                                        *)

GeneratingPdfToast == "Generating PDF..."

PdfExportedToast == "PDF exported successfully!"

PdfFailedToast == "Failed to export PDF"

\* new jsPDF(...): a document of one blank page.  A page is the sequence of
\* the images placed on it.
NewPdf == << <<>> >>

\* if (i > 0) pdf.addPage()
AddPageAlways(i) == TRUE

NeedsAddPage(i) == i > 0

AddPage(pages) == Append(pages, <<>>)

\* pdf.addImage(...) places the image on the current (last) page.
AddImage(pages, img) ==
  [pages EXCEPT ![Len(pages)] = Append(pages[Len(pages)], img)]

\* html2canvas(container) and canvas.toDataURL: the image of a fragment.
Rasterize(fragment) == [image |-> fragment]

\* The notifications after the catch block.
ToastsAfterCatchSilent(issued) == issued

ToastsAfterCatch(issued) == Append(issued, PdfFailedToast)

IdleRasterExport ==
  [pc |-> "idle", html |-> <<>>, parts |-> <<>>, i |-> 0, pages |-> <<>>,
   source |-> [by |-> "editor", pages |-> 0]]

\* exportToPDF is called while the document holds no element .ProseMirror
\* (the buttons are rendered whether or not the editor view is mounted):
\* the first notification is issued and the handler returns.
ExportToPDFWithoutEditor ==
  /\ rasterExport.pc = "idle"
  /\ rasterExport' = [IdleRasterExport EXCEPT !.pc = "returned"]
  /\ toasts' = Append(toasts, GeneratingPdfToast)
  /\ UNCHANGED <<scratchContainers, downloads, wordExport, pagesSplit>>
  /\ UNCHANGED <<regVars, impVars>>

\* exportToPDF is called and querySelector finds the editor element, whose
\* innerHTML is html: it runs up to the first await html2canvas.
ExportToPDFStarts(html) ==
  /\ rasterExport.pc = "idle"
  /\ rasterExport' =
       [pc |-> "html2canvas", html |-> html,
        parts |-> Split(html, PageBreakPattern), i |-> 0, pages |-> NewPdf,
        source |-> lastWriter]
  /\ toasts' = Append(toasts, GeneratingPdfToast)
  /\ scratchContainers' = scratchContainers + 1
  /\ UNCHANGED <<downloads, wordExport, pagesSplit>>
  /\ UNCHANGED <<regVars, impVars>>

\* await html2canvas resolves for parts[i]: the image goes on its page; the
\* loop goes on, or ends and the container is removed, the file saved and
\* the success notification issued.
CanvasRendered ==
  LET r == rasterExport
      img == Rasterize(r.parts[r.i + 1])
      pages == AddImage(IF NeedsAddPage(r.i) THEN AddPage(r.pages)
                                             ELSE r.pages, img)
  IN
  /\ r.pc = "html2canvas"
  /\ IF r.i + 1 < Len(r.parts)
       THEN /\ rasterExport' = [r EXCEPT !.i = r.i + 1, !.pages = pages]
            /\ UNCHANGED <<scratchContainers, downloads, toasts>>
       ELSE /\ rasterExport' =
                 [r EXCEPT !.i = r.i + 1, !.pages = pages, !.pc = "saved"]
            /\ scratchContainers' = scratchContainers - 1
            /\ downloads' =
                 Append(downloads, [name |-> "document.pdf", contents |-> pages])
            /\ toasts' = Append(toasts, PdfExportedToast)
  /\ UNCHANGED <<wordExport, pagesSplit>>
  /\ UNCHANGED <<regVars, impVars>>

\* html2canvas rejects, or toDataURL or addImage throws, for parts[i]: the
\* catch block logs the error and issues the failure notification.
CanvasThrows ==
  /\ rasterExport.pc = "html2canvas"
  /\ rasterExport' = [rasterExport EXCEPT !.pc = "failed"]
  /\ toasts' = ToastsAfterCatch(toasts)
  /\ UNCHANGED <<scratchContainers, downloads, wordExport, pagesSplit>>
  /\ UNCHANGED <<regVars, impVars>>

---------------------------------------------------------------------------
(* The page splitter (splitHtmlByPageBreaks).                              *)

\* const cleanedPart = part.trim()
UncleanedPart(part) == part

CleanedPart(part) == Trim(part)

\* The object returned: index -> cleanedPart, for the parts that are not
\* empty after the trim; the indices are those of forEach, from 0.
splitHtmlByPageBreaks(html) ==
  LET parts == Split(html, {HrRendered})
      kept == {index \in 0..(Len(parts) - 1) :
                 CleanedPart(parts[index + 1]) # <<>>}
  IN [index \in kept |-> CleanedPart(parts[index + 1])]

\* The effect that runs once the editor exists calls splitHtmlByPageBreaks
\* with a markup.
PagesSplit(html) ==
  /\ ~pagesSplit.called
  /\ pagesSplit' = [called |-> TRUE, html |-> html,
                    pageObject |-> splitHtmlByPageBreaks(html)]
  /\ UNCHANGED <<rasterExport, scratchContainers, toasts, downloads, wordExport>>
  /\ UNCHANGED <<regVars, impVars>>

---------------------------------------------------------------------------
(* The structured export (exportToWord).  The markup of the Document is    *)
(* parsed into a DOM tree; a node is a text node with its text or an       *)
(* element with its tag name, its data-page-break attribute and children.  *)

TextNode(text) ==
  [nodeType |-> "TEXT_NODE", tagName |-> "", pageBreak |-> "", text |-> text,
   childNodes |-> <<>>]

Element(tagName, pageBreak, childNodes) ==
  [nodeType |-> "ELEMENT_NODE", tagName |-> tagName, pageBreak |-> pageBreak,
   text |-> <<>>, childNodes |-> childNodes]

\* Node.textContent: the text of the node's text descendants, in order.
RECURSIVE TextContent(_)
TextContent(node) ==
  IF node.nodeType = "TEXT_NODE"
    THEN node.text
    ELSE LET RECURSIVE Of(_)
             Of(nodes) == IF nodes = <<>> THEN <<>>
                          ELSE TextContent(Head(nodes)) \o Of(Tail(nodes))
         IN Of(node.childNodes)

\* new TextRun(text) and new TextRun({text, bold, italics, underline, size})
TextRun(text) ==
  [text |-> text, bold |-> FALSE, italics |-> FALSE, underline |-> FALSE,
   size |-> 0]

StyledRun(text, bold, italics, underline, size) ==
  [text |-> text, bold |-> bold, italics |-> italics, underline |-> underline,
   size |-> size]

\* new Paragraph({pageBreakBefore, children})
Paragraph(pageBreakBefore, children) ==
  [pageBreakBefore |-> pageBreakBefore, children |-> children]

\* The element whose tag name sets the flags of a run: textElement, the
\* child of the paragraph element itself.
RECURSIVE InnermostElement(_)
InnermostElement(textElement) ==
  IF /\ Len(textElement.childNodes) = 1
     /\ textElement.childNodes[1].nodeType = "ELEMENT_NODE"
    THEN InnermostElement(textElement.childNodes[1])
    ELSE textElement

FlagElement(textElement) == textElement

\* processTextNode: the runs pushed for one child of a P element.
processTextNode(textNode) ==
  IF textNode.nodeType = "TEXT_NODE"
    THEN <<TextRun(textNode.text)>>
    ELSE LET tagName == FlagElement(textNode).tagName
         IN <<StyledRun(TextContent(textNode),
                        tagName \in {"STRONG", "B"},
                        tagName \in {"EM", "I"},
                        tagName = "U",
                        0)>>

\* element.tagName === 'HR' && element.dataset.pageBreak === 'true'
IsNeverPageBreak(element) == FALSE

IsPageBreak(element) == element.tagName = "HR" /\ element.pageBreak = "true"

\* processNode: the paragraphs pushed for one node, in order.
RECURSIVE processNode(_)
processNode(node) ==
  LET RECURSIVE Walk(_)
      Walk(nodes) == IF nodes = <<>> THEN <<>>
                     ELSE processNode(Head(nodes)) \o Walk(Tail(nodes))
      RECURSIVE Runs(_)
      Runs(nodes) == IF nodes = <<>> THEN <<>>
                     ELSE processTextNode(Head(nodes)) \o Runs(Tail(nodes))
  IN
  IF node.nodeType = "TEXT_NODE"
    THEN IF Trim(node.text) # <<>>
           THEN <<Paragraph(FALSE, <<TextRun(node.text)>>)>>
           ELSE <<>>
    ELSE IF IsPageBreak(node)
      THEN <<Paragraph(TRUE, <<>>)>>
      ELSE IF node.tagName \in {"H1", "H2", "H3"}
        THEN <<Paragraph(FALSE,
                 <<StyledRun(TextContent(node), TRUE, FALSE, FALSE,
                             IF node.tagName = "H1" THEN 32
                             ELSE IF node.tagName = "H2" THEN 28 ELSE 24)>>)>>
        ELSE IF node.tagName = "P"
          THEN IF Len(Runs(node.childNodes)) > 0
                 THEN <<Paragraph(FALSE, Runs(node.childNodes))>>
                 ELSE <<>>
          ELSE Walk(node.childNodes)

\* Array.from(doc.body.childNodes).forEach(processNode)
RECURSIVE ProcessBody(_)
ProcessBody(childNodes) ==
  IF childNodes = <<>> THEN <<>>
  ELSE processNode(Head(childNodes)) \o ProcessBody(Tail(childNodes))

EmptyDocumentText ==
  <<"E", "m", "p", "t", "y", " ", "d", "o", "c", "u", "m", "e", "n", "t">>

\* The children of the section of the Word document.
SectionChildren(paragraphs) ==
  IF Len(paragraphs) > 0
    THEN paragraphs
    ELSE <<Paragraph(FALSE, <<TextRun(EmptyDocumentText)>>)>>

\* The documents exported in the model: up to MaxBlocks blocks from
\* SampleBlocks, or one paragraph whose text lies in up to MaxNesting
\* nested style elements.
StyleTags == {"STRONG", "B", "EM", "I", "U"}

RECURSIVE Styled(_)
Styled(depth) ==
  IF depth = 0
    THEN {TextNode(<<"a">>)}
    ELSE {Element(tag, "", <<inner>>) :
            tag \in StyleTags, inner \in Styled(depth - 1)}

PageBreakElement == Element("HR", "true", <<>>)

SampleBlocks ==
  { Element("P", "", <<>>),
    Element("P", "", <<TextNode(<<" ">>)>>),
    Element("P", "", <<TextNode(<<"a">>)>>),
    Element("P", "", <<TextNode(<<"a">>),
                       Element("STRONG", "", <<TextNode(<<"b">>)>>)>>),
    Element("H1", "", <<>>),
    Element("H1", "", <<TextNode(<<"a">>)>>),
    Element("H2", "", <<TextNode(<<"a">>)>>),
    Element("H3", "", <<TextNode(<<"a">>)>>),
    Element("H4", "", <<TextNode(<<"a">>)>>),
    PageBreakElement,
    Element("HR", "", <<>>),
    Element("BLOCKQUOTE", "", <<Element("P", "", <<TextNode(<<"b">>)>>)>>),
    Element("BLOCKQUOTE", "", <<PageBreakElement>>),
    Element("UL", "", <<Element("LI", "", <<Element("P", "", <<>>)>>)>>) }

Documents ==
  UNION {[1..k -> SampleBlocks] : k \in 0..MaxBlocks}
    \cup {<<Element("P", "", <<inline>>)>> :
            inline \in UNION {Styled(depth) : depth \in 1..MaxNesting}}

GeneratingWordToast == "Generating Word document..."

WordExportedToast == "Word document exported successfully!"

WordFailedToast == "Failed to export Word document"

IdleWordExport == [pc |-> "idle", body |-> <<>>, children |-> <<>>]

\* exportToWord is called: the markup of the Document is parsed, the body is
\* walked and the Word document built, up to await Packer.toBlob.
ExportToWordStarts(body) ==
  /\ wordExport.pc = "idle"
  /\ wordExport' =
       [pc |-> "toBlob", body |-> body,
        children |-> SectionChildren(ProcessBody(body))]
  /\ toasts' = Append(toasts, GeneratingWordToast)
  /\ UNCHANGED <<rasterExport, scratchContainers, downloads, pagesSplit>>
  /\ UNCHANGED <<regVars, impVars>>

\* Packer.toBlob resolves: the file is downloaded through a link and the
\* success notification issued.
WordBlobPacked ==
  /\ wordExport.pc = "toBlob"
  /\ wordExport' = [wordExport EXCEPT !.pc = "saved"]
  /\ downloads' =
       Append(downloads,
              [name |-> "document.docx", contents |-> wordExport.children])
  /\ toasts' = Append(toasts, WordExportedToast)
  /\ UNCHANGED <<rasterExport, scratchContainers, pagesSplit>>
  /\ UNCHANGED <<regVars, impVars>>

\* Packer.toBlob rejects: the catch block issues the failure notification.
WordPackThrows ==
  /\ wordExport.pc = "toBlob"
  /\ wordExport' = [wordExport EXCEPT !.pc = "failed"]
  /\ toasts' = Append(toasts, WordFailedToast)
  /\ UNCHANGED <<rasterExport, scratchContainers, downloads, pagesSplit>>
  /\ UNCHANGED <<regVars, impVars>>

ExpInit ==
  /\ rasterExport = IdleRasterExport
  /\ scratchContainers = 0
  /\ toasts = <<>>
  /\ downloads = <<>>
  /\ wordExport = IdleWordExport
  /\ pagesSplit = [called |-> FALSE, html |-> <<>>, pageObject |-> <<>>]

---------------------------------------------------------------------------
(* The specifications.                                                     *)

RegNext ==
  \/ \E text \in Labels : TypeLabel(text)
  \/ AddCustomPlaceholder
  \/ \E p \in Range(allPlaceholders) : DeletePlaceholder(p)
  \/ Reload

ImpNext ==
  \/ \E m \in ImportIds : StartPdfUpload(m)
  \/ \E m \in ImportIds : AwaitResolves(m)
  \/ \E m \in ImportIds : \E n \in 0..MaxPages : DocLoaded(m, n)
  \/ \E m \in ImportIds : \E hrefs \in ImageNodeLists : SvgRendered(m, hrefs)
  \/ \E m \in ImportIds : \E k \in 1..MaxImagesPerPage : BlobResolved(m, k)
  \/ \E m \in ImportIds : \E k \in 1..MaxImagesPerPage : TaskRejects(m, k)
  \/ \E m \in ImportIds : AwaitRejects(m)
  \/ \E m \in ImportIds : PageAssembled(m)
  \/ StartWordUpload
  \/ WordFileRead
  \/ WordReadFails
  \/ \E value \in WordMarkups : WordConverted(value)
  \/ WordConvertThrows

\* The raster export, on any markup.
ExportNext ==
  \/ ExportToPDFWithoutEditor
  \/ \E html \in Markups : ExportToPDFStarts(html)
  \/ CanvasRendered
  \/ CanvasThrows

\* The page splitter, on any markup.
SplitNext == \E html \in Markups : PagesSplit(html)

\* The structured export, on any of the documents.
WordExportNext ==
  \/ \E body \in Documents : ExportToWordStarts(body)
  \/ WordBlobPacked
  \/ WordPackThrows

\* The image nodes of a page without embedded (data:) images.
ImageNodeListsNotEmbedded ==
  UNION {[1..k -> {OtherHref, NoHref}] : k \in 0..MaxImagesPerPage}

\* A PDF import of pages without embedded images, and a raster export of
\* the Document as the editor element holds it.
EndToEndNext ==
  \/ \E m \in ImportIds : StartPdfUpload(m)
  \/ \E m \in ImportIds : AwaitResolves(m)
  \/ \E m \in ImportIds : \E n \in 0..MaxPages : DocLoaded(m, n)
  \/ \E m \in ImportIds :
       \E hrefs \in ImageNodeListsNotEmbedded : SvgRendered(m, hrefs)
  \/ \E m \in ImportIds : AwaitRejects(m)
  \/ \E m \in ImportIds : PageAssembled(m)
  \/ ExportToPDFStarts(InnerHTML(content))
  \/ CanvasRendered
  \/ CanvasThrows

\* Two runs of handlePdfUpload in flight, on pages without images.
OverlapIds == {1, 2}

OverlapNext ==
  \/ \E m \in OverlapIds : StartPdfUpload(m)
  \/ \E m \in OverlapIds : AwaitResolves(m)
  \/ \E m \in OverlapIds : \E n \in 0..MaxPages : DocLoaded(m, n)
  \/ \E m \in OverlapIds : SvgRendered(m, <<>>)
  \/ \E m \in OverlapIds : AwaitRejects(m)
  \/ \E m \in OverlapIds : PageAssembled(m)

Init == RegInit /\ ImpInit /\ ExpInit

\* The state after construction, with room for the two runs.
OverlapInit ==
  /\ RegInit
  /\ ExpInit
  /\ content = InitialContent
  /\ lastWriter = [by |-> "editor", pages |-> 0]
  /\ imageBlobCache = EmptyCache
  /\ nextBlobUrl = 1
  /\ pdf = [m \in OverlapIds |-> IdlePdf]
  /\ tasks = [m \in OverlapIds |-> <<>>]
  /\ resolved = {}
  /\ word = [pc |-> "idle", errorLogged |-> FALSE]

SpecRegistry == Init /\ [][RegNext]_vars

SpecImport == Init /\ [][ImpNext]_vars

SpecExport == Init /\ [][ExportNext]_vars

\* Every html2canvas call settles: an export waiting on one goes on.
SpecExportFair == SpecExport /\ WF_vars(CanvasRendered \/ CanvasThrows)

SpecEndToEnd == Init /\ [][EndToEndNext]_vars

SpecOverlap == OverlapInit /\ [][OverlapNext]_vars

SpecSplit == Init /\ [][SplitNext]_vars

SpecWordExport == Init /\ [][WordExportNext]_vars

---------------------------------------------------------------------------
(* Properties of the placeholder registry, checked under SpecRegistry.     *)

\* The canonical token of a label: the label itself when it is wrapped in
\* {{ }}, otherwise the trimmed label wrapped as {{label}}.
CanonicalToken(label) ==
  IF Len(label) >= 2 /\ label[1] = "{" /\ label[2] = "{"
       /\ label[Len(label) - 1] = "}" /\ label[Len(label)] = "}"
    THEN label
    ELSE <<"{", "{">> \o Trim(label) \o <<"}", "}">>

IsBlank(label) == \A i \in 1..Len(label) : label[i] = " "

SuppressedDefaults == ParseOrEmpty(localStorage["removedDefaultPlaceholders"])

\* C1 as stated: after addCustomPlaceholder has run on any label L, the
\* visible list holds the canonical token of L exactly once and that token
\* is the first of the custom (non built-in) entries.  The statement is
\* read for labels with some non-blank text (an empty input is no label).
C1_AnyLabelAddedFirstAmongCustom ==
  (lastOp.op = "add" /\ ~IsBlank(lastOp.arg)) =>
    LET token == CanonicalToken(lastOp.arg)
        customs == CustomOnly(allPlaceholders)
    IN  /\ Count(allPlaceholders, token) = 1
        /\ customs # <<>>
        /\ Head(customs) = token

\* C1 amended: when addCustomPlaceholder runs on a label L that is not blank
\* and whose canonical token is not yet in the visible list, the list then
\* holds that token exactly once, as its first entry, ahead of every custom
\* entry (and first of the custom entries when it is not a built-in).
C1_NewLabelAddedFirst ==
  [][(/\ lastOp'.op = "add"
      /\ ~IsBlank(customPlaceholder)
      /\ ~Includes(allPlaceholders, CanonicalToken(customPlaceholder)))
     => LET token == CanonicalToken(customPlaceholder)
        IN  /\ Count(allPlaceholders', token) = 1
            /\ allPlaceholders'[1] = token
            /\ ~IsDefault(token) => Head(CustomOnly(allPlaceholders')) = token
    ]_vars

\* C1 witness: a padded or wrapped label was added while another custom
\* entry was already visible, and its token now leads the list.
C1_Witness ==
  /\ lastOp.op = "add"
  /\ ~IsBlank(lastOp.arg)
  /\ alertMsg = ""
  /\ Len(lastOp.arg) > 1
  /\ Len(CustomOnly(allPlaceholders)) >= 2
  /\ allPlaceholders[1] = CanonicalToken(lastOp.arg)

\* C2: right after deletePlaceholder(token) the visible list does not hold
\* token; and a built-in token that was ever deleted is absent from the list
\* the initializer builds from the stored records, and from the visible
\* list right after a reload, whatever was added or deleted in between.
C2_DeletedStaysAbsent ==
  /\ lastOp.op = "delete" => ~Includes(allPlaceholders, lastOp.arg)
  /\ \A token \in deletedDefaults :
       /\ ~Includes(InitialPlaceholders(localStorage), token)
       /\ lastOp.op = "reload" => ~Includes(allPlaceholders, token)

\* C2 witness: a reload after a built-in was deleted and a custom entry
\* was added.
C2_Witness ==
  /\ lastOp.op = "reload"
  /\ deletedDefaults # {}
  /\ CustomOnly(allPlaceholders) # <<>>

\* C3 as stated: the visible list is always the custom entries, latest
\* added first, followed by exactly the built-ins that are not suppressed,
\* in the order of defaultPlaceholders (so no built-in precedes a custom
\* entry).
C3_CustomFirstThenDefaults ==
  /\ allPlaceholders =
       CustomOnly(allPlaceholders) \o AvailableDefaults(SuppressedDefaults)
  /\ CustomOnly(allPlaceholders) = CustomOnly(addOrder)

\* C4: no token occurs more than once in the visible list.
C4_NoDuplicateTokens == NoDuplicates(allPlaceholders)

\* C4 witness: a built-in that had been deleted was added again, the case
\* in which the same token sits in the defaults and in the added entries.
C4_Witness ==
  /\ lastOp.op = "add"
  /\ alertMsg = ""
  /\ ~IsBlank(lastOp.arg)
  /\ IsDefault(CanonicalToken(lastOp.arg))
  /\ Includes(allPlaceholders, CanonicalToken(lastOp.arg))
  /\ CustomOnly(allPlaceholders) # <<>>

\* C5: when addCustomPlaceholder runs on a label whose token is already in
\* the visible list, the duplicate alert is shown and the visible list and
\* both stored records stay as they were.
C5_DuplicateAddRejected ==
  [][(/\ lastOp'.op = "add"
      /\ ~IsBlank(customPlaceholder)
      /\ Includes(allPlaceholders, CanonicalToken(customPlaceholder)))
     => /\ alertMsg' = DuplicateAlert
        /\ allPlaceholders' = allPlaceholders
        /\ localStorage' = localStorage
    ]_vars

\* C5 witness: an add was rejected with the alert while both records were
\* stored and a custom entry was visible.
C5_Witness ==
  /\ lastOp.op = "add"
  /\ alertMsg = DuplicateAlert
  /\ localStorage["customPlaceholders"].set
  /\ localStorage["removedDefaultPlaceholders"].set
  /\ CustomOnly(allPlaceholders) # <<>>

---------------------------------------------------------------------------
(* Properties of the imports, checked under SpecImport.                    *)

\* C6 as stated: every two finished resolutions of the same inline data
\* payload through the image blob cache gave the same blob URL, also when
\* they were started together by one Promise.all.
C6_SamePayloadSameReference ==
  \A r1, r2 \in resolved : r1.href = r2.href => r1.url = r2.url

\* C7 as stated: a resolution of payload P that started after another
\* resolution of P had finished returned the reference the earlier one
\* returned, and resolutions of distinct payloads returned distinct
\* references.
C7_SequentialSameDistinctDiffer ==
  /\ \A r \in resolved : \A earlier \in r.before : r.url = earlier
  /\ \A r1, r2 \in resolved : r1.href # r2.href => r1.url # r2.url

\* Markup of exactly n page containers numbered 1..n in ascending order,
\* with one page-break marker between consecutive containers and none
\* before the first or after the last.
WellPaged(markup, n) ==
  /\ n >= 1
  /\ Len(markup) = 2 * n - 1
  /\ \A k \in 1..n : markup[2 * k - 1] = [tag |-> "div", page |-> k]
  /\ \A k \in 1..(n - 1) : markup[2 * k].tag = "hr"
  /\ Cardinality({j \in 1..Len(markup) : markup[j].tag = "hr"}) = n - 1

\* C8: the markup a PDF import of N pages committed is N page containers
\* tagged 1..N in order with exactly one page-break marker between every
\* two consecutive containers and none at either end.
C8_CommittedMarkupWellPaged ==
  lastWriter.by = "pdf" => WellPaged(content, lastWriter.pages)

\* C8 witness: an import of at least two pages has committed.
C8_Witness ==
  /\ lastWriter.by = "pdf"
  /\ lastWriter.pages >= 2
  /\ \E j \in 1..Len(content) : content[j].tag = "hr"

\* The page numbers whose container is in the markup.
PagesIn(markup) ==
  {markup[j].page : j \in {k \in 1..Len(markup) : markup[k].tag = "div"}}

\* C9: a PDF import calls setContent at most once, a failed import never,
\* and the only step of an import that changes the Document is that single
\* replacement, made when every page 1..N has been processed; a step in
\* which an await of the import throws leaves the Document as it was.
C9_SingleCommitAfterAllPages ==
  /\ [](\A m \in ImportIds :
          /\ pdf[m].commits <= 1
          /\ pdf[m].pc = "failed" => pdf[m].commits = 0
          /\ pdf[m].commits = 1 =>
                /\ pdf[m].pc = "done"
                /\ PagesIn(pdf[m].htmlParts) = 1..pdf[m].numPages)
  /\ [][\A m \in ImportIds :
          /\ ((pdf'[m] # pdf[m] \/ tasks'[m] # tasks[m]) /\ content' # content)
               => /\ pdf'[m].pc = "done"
                  /\ pdf'[m].commits = pdf[m].commits + 1
                  /\ content' = pdf'[m].htmlParts
                  /\ PagesIn(content') = 1..pdf[m].numPages
          /\ (pdf[m].pc # "failed" /\ pdf'[m].pc = "failed")
               => content' = content
       ]_vars

\* C9 witness: an import failed after its first page had been assembled,
\* and the Document still holds what the editor started with.
C9_Witness ==
  \E m \in ImportIds :
    /\ pdf[m].pc = "failed"
    /\ pdf[m].htmlParts # <<>>
    /\ content = InitialContent

\* C10: when the Word converter throws, the error is logged and the
\* Document stays as it was; a step of the Word import changes the Document
\* only when the conversion has returned its result.
C10_WordFailureLeavesDocument ==
  [][/\ (word.pc = "converting" /\ word'.pc = "failed")
          => (word'.errorLogged /\ content' = content)
     /\ (word' # word /\ content' # content)
          => (word.pc = "converting" /\ word'.pc = "done"
              /\ content' \in WordMarkups)
    ]_vars

\* C10 witness: a conversion threw after an earlier Word import had
\* replaced the Document, which still holds that import's markup.
C10_Witness ==
  /\ word.pc = "failed"
  /\ word.errorLogged
  /\ lastWriter.by = "word"
  /\ content \in WordMarkups

\* C19: a reload shows exactly the list that was in memory just before it,
\* the same tokens in the same order, whatever adds and removes came before.
C19_ReloadKeepsVisibleList ==
  [][lastOp'.op = "reload" => allPlaceholders' = allPlaceholders]_vars

---------------------------------------------------------------------------
(* Properties of the raster export, checked under SpecExport.              *)

\* The page-break markers of a markup: the hr tags that carry
\* data-page-break="true", however they are spelled.
IsPageBreakTag(token) ==
  token \in {HrRendered, HrImported, HrInEditor, HrSingleQuoted}

MarkerPositions(html) == {j \in 1..Len(html) : IsPageBreakTag(html[j])}

\* The k-th fragment of a markup, k from 1: what lies between the (k-1)-th
\* and the k-th marker (the ends of the markup standing for marker 0 and
\* for the marker after the last).
Fragment(html, k) ==
  LET before(j) == Cardinality({m \in MarkerPositions(html) : m < j})
      inside == {j \in 1..Len(html) :
                   ~IsPageBreakTag(html[j]) /\ before(j) = k - 1}
  IN SelectSeq([j \in 1..Len(html) |-> IF j \in inside THEN html[j] ELSE ""],
               LAMBDA token : token # "")

\* C11: a raster export that has saved its file split a markup of N markers
\* into the N+1 fragments between them, in document order and with the empty
\* ones kept, and the file has N+1 pages: page k holds exactly the image of
\* fragment k.
C11_OnePagePerFragment ==
  LET r == rasterExport
      n == Cardinality(MarkerPositions(r.html))
  IN r.pc = "saved" =>
       /\ Len(r.parts) = n + 1
       /\ \A k \in 1..(n + 1) : r.parts[k] = Fragment(r.html, k)
       /\ Len(downloads) = 1
       /\ Len(downloads[1].contents) = n + 1
       /\ \A k \in 1..(n + 1) :
            downloads[1].contents[k] = <<Rasterize(Fragment(r.html, k))>>

\* C11 witness: a saved export of a markup whose two markers are adjacent
\* and the second of which ends the markup: three pages, two of them of
\* empty fragments.
C11_Witness ==
  /\ rasterExport.pc = "saved"
  /\ rasterExport.html = <<"x", HrInEditor, HrRendered>>
  /\ Len(downloads[1].contents) = 3
  /\ rasterExport.parts = << <<"x">>, <<>>, <<>> >>

\* The images placed on the pages of a jsPDF document.
ImagesPlaced(pages) ==
  LET RECURSIVE Sum(_)
      Sum(k) == IF k = 0 THEN 0 ELSE Len(pages[k]) + Sum(k - 1)
  IN Sum(Len(pages))

\* C12: when rasterizing a fragment throws, the export has stopped at that
\* fragment (the fragments before it were rendered, none after it), no file
\* is saved, no success notification is issued and the failure notification
\* is the last one issued.
C12_ThrowAbortsExport ==
  LET r == rasterExport
  IN r.pc = "failed" =>
       /\ r.i < Len(r.parts)
       /\ ImagesPlaced(r.pages) = r.i
       /\ downloads = <<>>
       /\ ~Includes(toasts, PdfExportedToast)
       /\ toasts = <<GeneratingPdfToast, PdfFailedToast>>

\* C12 witness: the second of three fragments threw after the first had
\* been placed on its page.
C12_Witness ==
  /\ rasterExport.pc = "failed"
  /\ Len(rasterExport.parts) = 3
  /\ rasterExport.i = 1
  /\ ImagesPlaced(rasterExport.pages) = 1

\* C13: once a raster export has ended, with its file saved or with the
\* failure reported, its scratch container is no longer attached to the body.
C13_ScratchContainerRemoved ==
  rasterExport.pc \in {"saved", "failed"} => scratchContainers = 0


---------------------------------------------------------------------------
(* Properties of the page splitter, checked under SpecSplit.               *)

\* C18: the mapping splitHtmlByPageBreaks returns has as keys exactly the
\* 0-based positions of the fragments of the markup (split at the marker as
\* the editor serializes it) that are not empty once trimmed, each mapped to
\* its trimmed fragment; the other positions are absent and no key is
\* renumbered.
C18_KeysArePositionsOfNonEmptyFragments ==
  LET html == pagesSplit.html
      pageObject == pagesSplit.pageObject
      markers == {j \in 1..Len(html) : html[j] = HrRendered}
      \* the fragment at 0-based position k, between markers k and k+1
      fragment(k) ==
        LET from == IF k = 0 THEN 0
                    ELSE CHOOSE j \in markers :
                           Cardinality({m \in markers : m < j}) = k - 1
            to == IF k = Cardinality(markers) THEN Len(html) + 1
                  ELSE CHOOSE j \in markers :
                         Cardinality({m \in markers : m < j}) = k
        IN SubSeq(html, from + 1, to - 1)
      positions == 0..Cardinality(markers)
  IN pagesSplit.called =>
       /\ DOMAIN pageObject = {k \in positions : Trim(fragment(k)) # <<>>}
       /\ \A k \in DOMAIN pageObject : pageObject[k] = Trim(fragment(k))

\* C18 witness: a markup whose first fragment is empty: the only key is 1,
\* mapped to the second fragment without its leading blank.
C18_Witness ==
  /\ pagesSplit.called
  /\ pagesSplit.html = <<HrRendered, " ", "x">>
  /\ DOMAIN pagesSplit.pageObject = {1}
  /\ pagesSplit.pageObject[1] = <<"x">>


---------------------------------------------------------------------------
(* Properties of the structured export, checked under SpecWordExport.      *)

\* The nodes of a tree, in document order.
RECURSIVE NodesOf(_)
NodesOf(node) ==
  LET RECURSIVE All(_)
      All(nodes) == IF nodes = <<>> THEN <<>>
                    ELSE NodesOf(Head(nodes)) \o All(Tail(nodes))
  IN <<node>> \o All(node.childNodes)

RECURSIVE NodesOfBody(_)
NodesOfBody(body) ==
  IF body = <<>> THEN <<>>
  ELSE NodesOf(Head(body)) \o NodesOfBody(Tail(body))

\* The document has no text node that is non-empty once trimmed.
NoTextInBody(body) ==
  \A j \in 1..Len(NodesOfBody(body)) :
    LET node == NodesOfBody(body)[j]
    IN node.nodeType = "TEXT_NODE" => Trim(node.text) = <<>>

\* C14: the structured export of a document without any text node that is
\* non-empty once trimmed produces exactly one paragraph, whose text is
\* "Empty document".
C14_NoTextGivesEmptyDocument ==
  (wordExport.pc # "idle" /\ NoTextInBody(wordExport.body)) =>
     wordExport.children = <<Paragraph(FALSE, <<TextRun(EmptyDocumentText)>>)>>


\* A page-break marker of the Document: an hr with data-page-break="true".
IsMarkerNode(node) ==
  node.nodeType = "ELEMENT_NODE" /\ node.tagName = "HR" /\ node.pageBreak = "true"

\* The top-level blocks that are a page-break marker or hold one.
BlocksWithPageBreak(body) ==
  {j \in 1..Len(body) :
     \E i \in 1..Len(NodesOf(body[j])) : IsMarkerNode(NodesOf(body[j])[i])}

PageBreaksInBody(body) ==
  Cardinality({i \in 1..Len(NodesOfBody(body)) :
                 IsMarkerNode(NodesOfBody(body)[i])})

\* C15: the structured export of a document with exactly one page-break
\* marker has exactly one paragraph flagged page-break-before; the
\* paragraphs ahead of it are those of the blocks before the marker and the
\* paragraphs behind it those of the blocks after the marker.  (A block that
\* holds the marker holds nothing else in the documents of the model.)
C15_OnePageBreakParagraphInPlace ==
  LET body == wordExport.body
      children == wordExport.children
      flagged == {k \in 1..Len(children) : children[k].pageBreakBefore}
  IN (wordExport.pc # "idle" /\ PageBreaksInBody(body) = 1) =>
       /\ Cardinality(flagged) = 1
       /\ \A k \in flagged : \A j \in BlocksWithPageBreak(body) :
            /\ children[k] = Paragraph(TRUE, <<>>)
            /\ SubSeq(children, 1, k - 1) = ProcessBody(SubSeq(body, 1, j - 1))
            /\ SubSeq(children, k + 1, Len(children))
                 = ProcessBody(SubSeq(body, j + 1, Len(body)))

\* C15 witness: a paragraph, the marker and a heading were exported as
\* three paragraphs, the second one flagged.
C15_Witness ==
  /\ wordExport.pc = "saved"
  /\ wordExport.body = <<Element("P", "", <<TextNode(<<"a">>)>>),
                         PageBreakElement,
                         Element("H1", "", <<TextNode(<<"a">>)>>)>>
  /\ Len(wordExport.children) = 3
  /\ wordExport.children[2].pageBreakBefore
  /\ ~wordExport.children[1].pageBreakBefore
  /\ ~wordExport.children[3].pageBreakBefore


\* The flags the style tag of an element stands for.
FlagsOfTag(tagName) ==
  [bold |-> tagName \in {"STRONG", "B"},
   italics |-> tagName \in {"EM", "I"},
   underline |-> tagName = "U"]

FlagsOfRun(run) ==
  [bold |-> run.bold, italics |-> run.italics, underline |-> run.underline]

\* The tag of the element that directly encloses the text of a chain of
\* nested elements.
RECURSIVE InnermostTag(_)
InnermostTag(element) ==
  IF element.childNodes # <<>> /\ element.childNodes[1].nodeType = "ELEMENT_NODE"
    THEN InnermostTag(element.childNodes[1])
    ELSE element.tagName

\* The exported document is one paragraph whose only child is a text inside
\* two or more nested style elements.
NestedStyleExported ==
  /\ wordExport.pc # "idle"
  /\ Len(wordExport.body) = 1
  /\ wordExport.body[1].tagName = "P"
  /\ Len(wordExport.body[1].childNodes) = 1
  /\ wordExport.body[1].childNodes[1].nodeType = "ELEMENT_NODE"
  /\ wordExport.body[1].childNodes[1].childNodes # <<>>
  /\ wordExport.body[1].childNodes[1].childNodes[1].nodeType = "ELEMENT_NODE"

\* C16 as stated: the flags of a run inside nested style tags are those of
\* the innermost tag, the one directly enclosing the text.
C16_FlagsOfInnermostTag ==
  NestedStyleExported =>
    FlagsOfRun(wordExport.children[1].children[1])
      = FlagsOfTag(InnermostTag(wordExport.body[1].childNodes[1]))

\* C16, amended: the flags of a run inside nested style tags are those of
\* the outermost tag, the child element of the paragraph; the run is the
\* only one of its paragraph and holds the whole text inside that element.
C16_FlagsOfOutermostTag ==
  NestedStyleExported =>
    /\ Len(wordExport.children) = 1
    /\ Len(wordExport.children[1].children) = 1
    /\ FlagsOfRun(wordExport.children[1].children[1])
         = FlagsOfTag(wordExport.body[1].childNodes[1].tagName)
    /\ wordExport.children[1].children[1].text = <<"a">>

\* C16 witness: <p><strong><em>a</em></strong></p> was exported as a run
\* that is bold and not italic.
C16_Witness ==
  /\ wordExport.pc = "saved"
  /\ wordExport.body =
       <<Element("P", "",
           <<Element("STRONG", "",
               <<Element("EM", "", <<TextNode(<<"a">>)>>)>>)>>)>>
  /\ wordExport.children[1].children[1].bold
  /\ ~wordExport.children[1].children[1].italics


---------------------------------------------------------------------------
(* The import followed by the raster export, checked under SpecEndToEnd.   *)

\* C17: a raster export that started on the Document a PDF import of N
\* pages committed, and has saved its file, wrote exactly N pages; after an
\* import of two pages the Document is the two page containers with one
\* marker between them.
C17_ImportedPagesExported ==
  /\ (rasterExport.pc = "saved" /\ rasterExport.source.by = "pdf") =>
        /\ rasterExport.source.pages >= 1
        /\ Len(downloads[1].contents) = rasterExport.source.pages
  /\ (lastWriter.by = "pdf" /\ lastWriter.pages = 2) =>
        content = <<PageContainer(1), PageBreakMarker, PageContainer(2)>>

\* C17 witness: the export of an imported two-page PDF has saved a file of
\* two pages.
C17_Witness ==
  /\ rasterExport.pc = "saved"
  /\ rasterExport.source = [by |-> "pdf", pages |-> 2]
  /\ content = <<PageContainer(1), PageBreakMarker, PageContainer(2)>>
  /\ Len(rasterExport.parts) = 2
  /\ Len(downloads[1].contents) = 2


---------------------------------------------------------------------------
(* Two PDF imports in flight, checked under SpecOverlap.                   *)

\* The parts of the pages 1..k of a document of n pages: every container,
\* with a marker after each page but the last of the document.
PagesUpTo(k, n) ==
  [j \in 1..(IF k = n /\ n > 0 THEN 2 * n - 1 ELSE 2 * k) |->
     IF j % 2 = 1 THEN PageContainer((j + 1) \div 2) ELSE PageBreakMarker]

\* C20: each of two interleaved imports accumulates its own pages: what a
\* run has pushed is the pages of its own document up to the one it is at;
\* the Document changes only when a run commits, and then to all the pages
\* 1..N of that run, in order with its markers, so that it is at every
\* moment the initial content or the complete page sequence of the run that
\* committed last.
C20_EachCommitIsOneImportsPages ==
  /\ [](\A m \in OverlapIds :
          /\ pdf[m].pc \in {"getPage", "getOperatorList", "getSVG", "images"}
               => pdf[m].htmlParts = PagesUpTo(pdf[m].i - 1, pdf[m].numPages)
          /\ (pdf[m].pc = "done" /\ pdf[m].numPages > 0)
               => pdf[m].htmlParts = PagesUpTo(pdf[m].numPages, pdf[m].numPages))
  /\ [][content' # content =>
          \E m \in OverlapIds :
            /\ pdf[m].pc = "images" /\ pdf'[m].pc = "done"
            /\ pdf'[m].commits = pdf[m].commits + 1
            /\ content' = PagesUpTo(pdf[m].numPages, pdf[m].numPages)
            /\ lastWriter' = [by |-> "pdf", pages |-> pdf[m].numPages]
       ]_vars
  /\ [](lastWriter.by = "pdf"
          => content = PagesUpTo(lastWriter.pages, lastWriter.pages))

\* C20 witness: two imports whose pages were assembled in alternation have
\* both committed, the one-page document first and the two-page one last:
\* the Document is the two pages of the latter.
C20_Witness ==
  /\ pdf[1].pc = "done" /\ pdf[1].numPages = 1 /\ pdf[1].commits = 1
  /\ pdf[2].pc = "done" /\ pdf[2].numPages = 2 /\ pdf[2].commits = 1
  /\ lastWriter = [by |-> "pdf", pages |-> 2]
  /\ content = <<PageContainer(1), PageBreakMarker, PageContainer(2)>>


---------------------------------------------------------------------------
(* Termination of the raster export, checked under SpecExportFair.         *)

\* A raster export has been started: its first notification is issued.
RasterExportStarted == Includes(toasts, GeneratingPdfToast)

\* The export has ended with its file saved and the success notification.
RasterExportSucceeded ==
  /\ Includes(toasts, PdfExportedToast)
  /\ ~Includes(toasts, PdfFailedToast)
  /\ Len(downloads) = 1
  /\ downloads[1].name = "document.pdf"

\* The export has ended with the failure notification and no file.
RasterExportFailed ==
  /\ Includes(toasts, PdfFailedToast)
  /\ ~Includes(toasts, PdfExportedToast)
  /\ downloads = <<>>

\* C21: every raster export that has issued "Generating PDF..." eventually
\* ends either with document.pdf saved and the success notification, or
\* with the failure notification and no file, every rasterization call
\* returning or throwing.
C21_StartedExportEndsNotified ==
  RasterExportStarted ~> (RasterExportSucceeded \/ RasterExportFailed)

===========================================================================
